---- MODULE Spec2Model ----
(***************************************************************************)
(* Document synchronisation and live revalidation of sqlfluff-lsp          *)
(* (src/src/lsp.rs).  The registry `watchers` maps a document uri to a     *)
(* Watcher {tx, rx} over a tokio watch channel; did_open spawns one        *)
(* revalidation task per created channel; did_change / did_save publish    *)
(* into the channel; did_close removes the Watcher (dropping tx and rx);   *)
(* formatting reads the current value and runs the analyzer in fix mode.   *)
(*                                                                         *)
(* Every handler body that runs without an await point between taking the  *)
(* registry lock and releasing it is one atomic action.  Await points      *)
(* inside a handler or inside the task separate actions.                   *)
(*                                                                         *)
(* tokio watch semantics used below: send() fails iff no Receiver handle   *)
(* is alive, otherwise it stores the value and increments the channel      *)
(* version; borrow_and_update() reads the value and marks the version      *)
(* seen; changed() resolves Ok as soon as the version differs from the     *)
(* seen one (also after the Sender was dropped), and Err once the Sender   *)
(* is dropped and nothing is unseen.                                       *)
(***************************************************************************)
EXTENDS Integers, Sequences, FiniteSets, TLC

\* ---- bounds of the model ----
MaxOps == 3      \* handler invocations issued by the client
MaxChan == 2     \* watch channels (and tasks) ever created
MaxLen == 3      \* characters of a text handed to sqlfluff::fmt
MaxOut == 2      \* bytes the analyzer writes to its standard output

Docs == {"a.sql", "b.sql"}
Texts == {"t1", "t2"}
NoText == ""
NoChan == 0
Chans == 1..MaxChan

\* content_changes of a didChange notification: zero, one or two elements
ChangeLists == {<<>>} \cup {<<t>> : t \in Texts} \cup {<<"t1", "t2">>, <<"t2", "t1">>}

VARIABLES
    watchers,      \* Backend.watchers: uri -> channel of its Watcher, NoChan if absent
    nchan,         \* number of watch channels created so far
    curi,          \* uri captured by the task spawned with channel c
    cval,          \* value held by channel c
    cver,          \* version of channel c (one increment per successful send)
    cclosed,       \* the Sender of channel c has been dropped
    pc,            \* position of the task of channel c
    seen,          \* version last marked seen by the task's receiver _rx
    content,       \* the task's local `content`
    result,        \* outcome of the task's last finished sqlfluff::lint call
    lastDiag,      \* last diagnostics event the client received for a uri
    pendingClear,  \* did_close calls past the remove, before publish_diagnostics
    fmtReq,        \* text of the formatting request in flight for a uri
    ops,           \* handler invocations so far
    call,          \* the handler invoked in the last step, NoCall if none
    out,           \* the notification sent to the client in the last step, NoOut if none
    ret,           \* what formatting returned in the last step, "none" if nothing
    panicked,      \* an unwrap() of a failed send has panicked
    input,         \* sqlfluff::fmt: the text `content` it is called with
    output,        \* sqlfluff::fmt: what running `sqlfluff fix` will produce
    stage,         \* position of the formatting request that calls sqlfluff::fmt
    fmtResult,     \* sqlfluff::fmt: its return value
    reply,         \* what the formatting handler returned to the client
    shown          \* show_message(ERROR, ..) calls made by the formatting handler

chanVars == <<nchan, curi, cval, cver, cclosed>>
taskVars == <<pc, seen, content, result>>
progVars == <<watchers, chanVars, taskVars, lastDiag, pendingClear, fmtReq, panicked>>
lspVars == <<progVars, ops, call, out, ret>>
fmtVars == <<input, output, stage, fmtResult, reply, shown>>
vars == <<lspVars, fmtVars>>

NoCall == [op |-> "none", doc |-> NoText, arg |-> <<>>]
Event(k, d, c, v, t) == [kind |-> k, doc |-> d, chan |-> c, ver |-> v, text |-> t]
NoOut == Event("none", NoText, NoChan, 0, NoText)
\* client.publish_diagnostics(uri, vec![], None)
ClearDiag(d) == Event("clear", d, NoChan, 0, NoText)
\* client.publish_diagnostics(uri, diags, None), diags computed from `content`
LintDiag(c) == Event("lint", curi[c], c, seen[c], content[c])
\* client.show_message(MessageType::ERROR, error)
ErrorMsg(d, c) == Event("error", d, c, 0, NoText)

\* ---- texts, bytes and process outcomes of sqlfluff::fmt ----

\* characters of a document: a letter, a space, line feed, carriage return
\* and a character outside the basic multilingual plane
LF == "LF"
CR == "CR"
Astral == "U+1F600"
Chars == {"a", " ", LF, CR, Astral}

RECURSIVE Repeat(_, _)
Repeat(s, n) == IF n = 0 THEN <<>> ELSE s \o Repeat(s, n - 1)

SeqsUpTo(S, n) == UNION {[1..k -> S] : k \in 0..n}

\* the input of test_fmt_simple: six lines ended by a line feed followed by
\* a line of eight spaces that is not ended by one
TestInput == Repeat(<<"a", LF>>, 6) \o Repeat(<<" ">>, 8)
Inputs == SeqsUpTo(Chars \ {" "}, MaxLen) \cup {TestInput}

\* bytes of the analyzer's standard output: "a", the two bytes of U+00E9,
\* and a byte that occurs in no UTF-8 encoding
Bytes == {"x61", "xC3", "xA9", "xFF"}
Replacement == "U+FFFD"
Stdouts == SeqsUpTo(Bytes, MaxOut)

\* what Sqlfluff::execute and output.status.code() can give: the process
\* cannot be spawned, it exits with a code, or it is killed by a signal
ExitCodes == {0, 1, 2}
SpawnError == [kind |-> "spawn_error", code |-> 0, stdout |-> <<>>]
Exited(c, b) == [kind |-> "exited", code |-> c, stdout |-> b]
Signalled(b) == [kind |-> "signal", code |-> 0, stdout |-> b]
Outputs ==
    {SpawnError} \cup {Exited(c, b) : c \in ExitCodes, b \in Stdouts}
        \cup {Signalled(b) : b \in Stdouts}

\* str::lines(): the text is split after every line feed; a piece loses its
\* final line feed and then a carriage return left at its end
RECURSIVE SplitInclusive(_)
SplitInclusive(s) ==
    IF s = <<>> THEN <<>>
    ELSE LET ends == {i \in 1..Len(s) : s[i] = LF \/ i = Len(s)}
             n == CHOOSE i \in ends : \A j \in ends : i <= j
         IN  <<SubSeq(s, 1, n)>> \o SplitInclusive(SubSeq(s, n + 1, Len(s)))

StripLine(l) ==
    IF l[Len(l)] # LF THEN l
    ELSE LET m == SubSeq(l, 1, Len(l) - 1)
         IN  IF m # <<>> /\ m[Len(m)] = CR THEN SubSeq(m, 1, Len(m) - 1) ELSE m

Lines(s) == [i \in 1..Len(SplitInclusive(s)) |-> StripLine(SplitInclusive(s)[i])]

\* line.encode_utf16().count()
RECURSIVE Utf16Count(_)
Utf16Count(l) ==
    IF l = <<>> THEN 0
    ELSE (IF l[1] = Astral THEN 2 ELSE 1) + Utf16Count(Tail(l))

\* String::from_utf8_lossy: valid sequences are decoded, every other byte
\* becomes U+FFFD
RECURSIVE FromUtf8Lossy(_)
FromUtf8Lossy(b) ==
    IF b = <<>> THEN <<>>
    ELSE IF b[1] = "x61" THEN <<"a">> \o FromUtf8Lossy(Tail(b))
    ELSE IF b[1] = "xC3" /\ Len(b) > 1 /\ b[2] = "xA9"
         THEN <<"U+00E9">> \o FromUtf8Lossy(SubSeq(b, 3, Len(b)))
    ELSE <<Replacement>> \o FromUtf8Lossy(Tail(b))

Position(l, c) == <<l, c>>
Range(s, e) == [start |-> s, end |-> e]
TextEdit(r, t) == [range |-> r, new_text |-> t]

\* the edit sqlfluff::fmt builds from `content` and the standard output
FmtEdit(cont, stdout) ==
    LET lines == Lines(cont)
        line_count == Len(lines)
        last_line_len == IF lines = <<>> THEN 0 ELSE Utf16Count(lines[Len(lines)])
    IN  TextEdit(Range(Position(0, 0), Position(line_count, last_line_len)),
                 FromUtf8Lossy(stdout))

NoOutput == [kind |-> "none", code |-> 0, stdout |-> <<>>]
NoResult == [kind |-> "none", edits |-> <<>>]
Ok(e) == [kind |-> "Ok", edits |-> e]
Err == [kind |-> "Err", edits |-> <<>>]

\* no formatting request whose analyzer run is followed in detail
FmtIdle ==
    /\ input = <<>>
    /\ output = NoOutput
    /\ stage = "idle"
    /\ fmtResult = NoResult
    /\ reply = NoResult
    /\ shown = 0

InitLsp ==
    /\ watchers = [d \in Docs |-> NoChan]
    /\ nchan = 0
    /\ curi = [c \in Chans |-> NoText]
    /\ cval = [c \in Chans |-> NoText]
    /\ cver = [c \in Chans |-> 0]
    /\ cclosed = [c \in Chans |-> FALSE]
    /\ pc = [c \in Chans |-> "unspawned"]
    /\ seen = [c \in Chans |-> 0]
    /\ content = [c \in Chans |-> NoText]
    /\ result = [c \in Chans |-> "none"]
    /\ lastDiag = [d \in Docs |-> NoOut]
    /\ pendingClear = [d \in Docs |-> 0]
    /\ fmtReq = [d \in Docs |-> NoText]
    /\ ops = 0
    /\ call = NoCall
    /\ out = NoOut
    /\ ret = "none"
    /\ panicked = FALSE

Init == InitLsp /\ FmtIdle

\* a formatting request has read the text `input` of an open document and
\* calls sqlfluff::fmt; the analyzer will behave as `output` says
FmtInit ==
    /\ InitLsp
    /\ input \in Inputs
    /\ output \in Outputs
    /\ stage = "called"
    /\ fmtResult = NoResult
    /\ reply = NoResult
    /\ shown = 0

\* ---- the watch channel ----

\* live Receiver handles of channel c: Watcher.rx while the Watcher is in the
\* registry, and the task's clone _rx while the task has not returned
RxCount(c) ==
    (IF \E d \in Docs : watchers[d] = c THEN 1 ELSE 0)
        + (IF pc[c] \in {"unspawned", "done"} THEN 0 ELSE 1)

\* watcher.tx.send(text).unwrap()
Send(c, t) ==
    IF RxCount(c) > 0
    THEN /\ cval' = [cval EXCEPT ![c] = t]
         /\ cver' = [cver EXCEPT ![c] = @ + 1]
         /\ UNCHANGED panicked
    ELSE /\ panicked' = TRUE
         /\ UNCHANGED <<cval, cver>>

\* formatting holds the registry read guard of its `if let` scrutinee until
\* the end of the block, across the await of sqlfluff::fmt
ReadLocked == \E d \in Docs : fmtReq[d] # NoText

\* ---- handlers ----

\* handler o is invoked for document d with the texts a of its parameters
Called(o, d, a) ==
    /\ ops < MaxOps
    /\ ops' = ops + 1
    /\ call' = [op |-> o, doc |-> d, arg |-> a]

Silent == out' = NoOut /\ ret' = "none"

\* DidOpen with a plain insert: an existing Watcher is replaced by a new
\* channel and task, and dropped
DidOpenReplace(d, t) ==
    /\ Called("open", d, <<t>>)
    /\ ~ReadLocked
    /\ nchan < MaxChan
    /\ nchan' = nchan + 1
    /\ watchers' = [watchers EXCEPT ![d] = nchan + 1]
    /\ curi' = [curi EXCEPT ![nchan + 1] = d]
    /\ cval' = [cval EXCEPT ![nchan + 1] = t]
    /\ pc' = [pc EXCEPT ![nchan + 1] = "spawned"]
    /\ seen' = [seen EXCEPT ![nchan + 1] = cver[nchan + 1]]
    /\ cclosed' = [c \in Chans |-> cclosed[c] \/ c = watchers[d]]
    /\ Silent
    /\ UNCHANGED <<cver, panicked, content, result, lastDiag, pendingClear, fmtReq>>
    /\ UNCHANGED fmtVars

DidOpen(d, t) ==
    /\ Called("open", d, <<t>>)
    /\ ~ReadLocked
    /\ IF watchers[d] # NoChan
       THEN /\ Send(watchers[d], t)
            /\ UNCHANGED <<watchers, nchan, curi, cclosed, pc, seen>>
       ELSE /\ nchan < MaxChan
            /\ nchan' = nchan + 1
            /\ watchers' = [watchers EXCEPT ![d] = nchan + 1]
            /\ curi' = [curi EXCEPT ![nchan + 1] = d]
            /\ cval' = [cval EXCEPT ![nchan + 1] = t]
            /\ pc' = [pc EXCEPT ![nchan + 1] = "spawned"]
            /\ seen' = [seen EXCEPT ![nchan + 1] = cver[nchan + 1]]
            /\ UNCHANGED <<cver, cclosed, panicked>>
    /\ Silent
    /\ UNCHANGED <<content, result, lastDiag, pendingClear, fmtReq>>
    /\ UNCHANGED fmtVars

\* DidClose that clears the diagnostics only when it removed an entry
DidCloseIfOpen(d) ==
    /\ Called("close", d, <<>>)
    /\ ~ReadLocked
    /\ watchers' = [watchers EXCEPT ![d] = NoChan]
    /\ cclosed' = [c \in Chans |-> cclosed[c] \/ c = watchers[d]]
    /\ pendingClear' = [pendingClear EXCEPT ![d] = IF watchers[d] # NoChan THEN @ + 1 ELSE @]
    /\ Silent
    /\ UNCHANGED <<nchan, curi, cval, cver, taskVars, lastDiag, fmtReq, panicked>>
    /\ UNCHANGED fmtVars

\* DidClose with a Sender clone kept alive elsewhere: the entry is removed
\* but the channel is not torn down
DidCloseKeepSender(d) ==
    /\ Called("close", d, <<>>)
    /\ ~ReadLocked
    /\ watchers' = [watchers EXCEPT ![d] = NoChan]
    /\ pendingClear' = [pendingClear EXCEPT ![d] = @ + 1]
    /\ Silent
    /\ UNCHANGED <<chanVars, taskVars, lastDiag, fmtReq, panicked>>
    /\ UNCHANGED fmtVars

DidClose(d) ==
    /\ Called("close", d, <<>>)
    /\ ~ReadLocked
    /\ watchers' = [watchers EXCEPT ![d] = NoChan]
    /\ cclosed' = [c \in Chans |-> cclosed[c] \/ c = watchers[d]]
    /\ pendingClear' = [pendingClear EXCEPT ![d] = @ + 1]
    /\ Silent
    /\ UNCHANGED <<nchan, curi, cval, cver, taskVars, lastDiag, fmtReq, panicked>>
    /\ UNCHANGED fmtVars

ClosePublish(d) ==
    /\ pendingClear[d] > 0
    /\ pendingClear' = [pendingClear EXCEPT ![d] = @ - 1]
    /\ lastDiag' = [lastDiag EXCEPT ![d] = ClearDiag(d)]
    /\ out' = ClearDiag(d)
    /\ ret' = "none"
    /\ call' = NoCall
    /\ UNCHANGED <<watchers, chanVars, taskVars, fmtReq, ops, panicked>>
    /\ UNCHANGED fmtVars

\* DidChange that sends through a Sender it looked up earlier, after the
\* read guard was released: the channel may be one a did_close has dropped
DidChangeStaleHandle(d, changes) ==
    /\ Called("change", d, changes)
    /\ IF changes # <<>>
       THEN \E c \in Chans :
              /\ curi[c] = d
              /\ Send(c, Head(changes))
       ELSE UNCHANGED <<cval, cver, panicked>>
    /\ Silent
    /\ UNCHANGED <<watchers, nchan, curi, cclosed, taskVars, lastDiag, pendingClear, fmtReq>>
    /\ UNCHANGED fmtVars

\* DidChange that publishes the last element of content_changes
DidChangeLast(d, changes) ==
    /\ Called("change", d, changes)
    /\ IF changes # <<>> /\ watchers[d] # NoChan
       THEN Send(watchers[d], changes[Len(changes)])
       ELSE UNCHANGED <<cval, cver, panicked>>
    /\ Silent
    /\ UNCHANGED <<watchers, nchan, curi, cclosed, taskVars, lastDiag, pendingClear, fmtReq>>
    /\ UNCHANGED fmtVars

DidChange(d, changes) ==
    /\ Called("change", d, changes)
    /\ IF changes # <<>> /\ watchers[d] # NoChan
       THEN Send(watchers[d], Head(changes))
       ELSE UNCHANGED <<cval, cver, panicked>>
    /\ Silent
    /\ UNCHANGED <<watchers, nchan, curi, cclosed, taskVars, lastDiag, pendingClear, fmtReq>>
    /\ UNCHANGED fmtVars

\* DidSave that opens the document when it finds no entry
DidSaveUpsert(d, t) ==
    /\ Called("save", d, IF t = NoText THEN <<>> ELSE <<t>>)
    /\ IF t # NoText /\ watchers[d] # NoChan
       THEN /\ Send(watchers[d], t)
            /\ UNCHANGED <<watchers, nchan, curi, pc>>
       ELSE IF t # NoText /\ nchan < MaxChan
       THEN /\ nchan' = nchan + 1
            /\ watchers' = [watchers EXCEPT ![d] = nchan + 1]
            /\ curi' = [curi EXCEPT ![nchan + 1] = d]
            /\ cval' = [cval EXCEPT ![nchan + 1] = t]
            /\ pc' = [pc EXCEPT ![nchan + 1] = "spawned"]
            /\ UNCHANGED <<cver, panicked>>
       ELSE UNCHANGED <<cval, cver, panicked, watchers, nchan, curi, pc>>
    /\ Silent
    /\ UNCHANGED <<cclosed, seen, content, result, lastDiag, pendingClear, fmtReq>>
    /\ UNCHANGED fmtVars

DidSave(d, t) ==
    /\ Called("save", d, IF t = NoText THEN <<>> ELSE <<t>>)
    /\ IF t # NoText /\ watchers[d] # NoChan
       THEN Send(watchers[d], t)
       ELSE UNCHANGED <<cval, cver, panicked>>
    /\ Silent
    /\ UNCHANGED <<watchers, nchan, curi, cclosed, taskVars, lastDiag, pendingClear, fmtReq>>
    /\ UNCHANGED fmtVars

\* Formatting that formats the text the revalidation task linted last
\* instead of the channel's current value
FormattingLinted(d) ==
    /\ Called("format", d, <<>>)
    /\ fmtReq[d] = NoText
    /\ IF watchers[d] # NoChan /\ content[watchers[d]] # NoText
       THEN /\ fmtReq' = [fmtReq EXCEPT ![d] = content[watchers[d]]]
            /\ ret' = "none"
       ELSE /\ ret' = "absent"
            /\ UNCHANGED fmtReq
    /\ out' = NoOut
    /\ UNCHANGED <<watchers, chanVars, taskVars, lastDiag, pendingClear, panicked>>
    /\ UNCHANGED fmtVars

\* formatting up to its first await: the snapshot is read and sqlfluff::fmt
\* is started, or Ok(None) is returned at once
Formatting(d) ==
    /\ Called("format", d, <<>>)
    /\ fmtReq[d] = NoText
    /\ IF watchers[d] # NoChan
       THEN /\ fmtReq' = [fmtReq EXCEPT ![d] = cval[watchers[d]]]
            /\ ret' = "none"
       ELSE /\ ret' = "absent"
            /\ UNCHANGED fmtReq
    /\ out' = NoOut
    /\ UNCHANGED <<watchers, chanVars, taskVars, lastDiag, pendingClear, panicked>>
    /\ UNCHANGED fmtVars

\* FormattingDone that publishes the document again when the fix succeeded
FormattingDoneRepublish(d, ok) ==
    /\ fmtReq[d] # NoText
    /\ fmtReq' = [fmtReq EXCEPT ![d] = NoText]
    /\ ret' = IF ok THEN "edit" ELSE "failed"
    /\ out' = IF ok THEN NoOut ELSE ErrorMsg(d, NoChan)
    /\ call' = NoCall
    /\ IF ok THEN Send(watchers[d], fmtReq[d]) ELSE UNCHANGED <<cval, cver, panicked>>
    /\ UNCHANGED <<watchers, nchan, curi, cclosed, taskVars, lastDiag, pendingClear, ops>>
    /\ UNCHANGED fmtVars

\* sqlfluff::fmt returns: Ok(Some(edits)), or show_message and Ok(None)
FormattingDone(d, ok) ==
    /\ fmtReq[d] # NoText
    /\ fmtReq' = [fmtReq EXCEPT ![d] = NoText]
    /\ ret' = IF ok THEN "edit" ELSE "failed"
    /\ out' = IF ok THEN NoOut ELSE ErrorMsg(d, NoChan)
    /\ call' = NoCall
    /\ UNCHANGED <<watchers, chanVars, taskVars, lastDiag, pendingClear, ops, panicked>>
    /\ UNCHANGED fmtVars

\* ---- the revalidation task of channel c ----

TaskSilent == call' = NoCall /\ out' = NoOut /\ ret' = "none"

\* let content = _rx.borrow_and_update().clone(); sqlfluff::lint(...) is started
BorrowAndLint(c) ==
    /\ content' = [content EXCEPT ![c] = cval[c]]
    /\ seen' = [seen EXCEPT ![c] = cver[c]]
    /\ pc' = [pc EXCEPT ![c] = "linting"]

TaskStart(c) ==
    /\ pc[c] = "spawned"
    /\ BorrowAndLint(c)
    /\ TaskSilent
    /\ UNCHANGED <<result, watchers, chanVars, lastDiag, pendingClear, fmtReq, ops, panicked>>
    /\ UNCHANGED fmtVars

\* sqlfluff::lint returns Ok(diags) or Err(error)
LintDone(c, ok) ==
    /\ pc[c] = "linting"
    /\ pc' = [pc EXCEPT ![c] = IF ok THEN "publish" ELSE "report"]
    /\ result' = [result EXCEPT ![c] = IF ok THEN "ok" ELSE "err"]
    /\ TaskSilent
    /\ UNCHANGED <<watchers, chanVars, seen, content, lastDiag, pendingClear, fmtReq,
                   ops, panicked>>
    /\ UNCHANGED fmtVars

TaskPublish(c) ==
    /\ pc[c] = "publish"
    /\ lastDiag' = [lastDiag EXCEPT ![curi[c]] = LintDiag(c)]
    /\ out' = LintDiag(c)
    /\ ret' = "none"
    /\ call' = NoCall
    /\ pc' = [pc EXCEPT ![c] = "changed"]
    /\ UNCHANGED <<watchers, chanVars, seen, content, result, pendingClear, fmtReq, ops, panicked>>
    /\ UNCHANGED fmtVars

\* TaskReport that leaves the loop after reporting the failure
TaskReportBreak(c) ==
    /\ pc[c] = "report"
    /\ out' = ErrorMsg(curi[c], c)
    /\ ret' = "none"
    /\ call' = NoCall
    /\ pc' = [pc EXCEPT ![c] = "done"]
    /\ UNCHANGED <<watchers, chanVars, seen, content, result, lastDiag, pendingClear, fmtReq,
                   ops, panicked>>
    /\ UNCHANGED fmtVars

\* TaskReport that also publishes an empty finding set for the failed cycle
TaskReportClear(c) ==
    /\ pc[c] = "report"
    /\ out' = ErrorMsg(curi[c], c)
    /\ lastDiag' = [lastDiag EXCEPT ![curi[c]] = ClearDiag(curi[c])]
    /\ ret' = "none"
    /\ call' = NoCall
    /\ pc' = [pc EXCEPT ![c] = "changed"]
    /\ UNCHANGED <<watchers, chanVars, seen, content, result, pendingClear, fmtReq,
                   ops, panicked>>
    /\ UNCHANGED fmtVars

TaskReport(c) ==
    /\ pc[c] = "report"
    /\ out' = ErrorMsg(curi[c], c)
    /\ ret' = "none"
    /\ call' = NoCall
    /\ pc' = [pc EXCEPT ![c] = "changed"]
    /\ UNCHANGED <<watchers, chanVars, seen, content, result, lastDiag, pendingClear, fmtReq,
                   ops, panicked>>
    /\ UNCHANGED fmtVars

\* TaskWake with `content` read once before the loop: the woken task lints
\* the text it already had
TaskWakeStale(c) ==
    /\ pc[c] = "changed"
    /\ cver[c] # seen[c]
    /\ seen' = [seen EXCEPT ![c] = cver[c]]
    /\ pc' = [pc EXCEPT ![c] = "linting"]
    /\ TaskSilent
    /\ UNCHANGED <<content, result, watchers, chanVars, lastDiag, pendingClear, fmtReq, ops,
                   panicked>>
    /\ UNCHANGED fmtVars

\* TaskWake of a loop that does not wait for a change before it lints again
TaskWakeSpurious(c) ==
    /\ pc[c] = "changed"
    /\ ~cclosed[c]
    /\ BorrowAndLint(c)
    /\ TaskSilent
    /\ UNCHANGED <<result, watchers, chanVars, lastDiag, pendingClear, fmtReq, ops, panicked>>
    /\ UNCHANGED fmtVars

\* _rx.changed() resolves Ok: the next iteration starts
TaskWake(c) ==
    /\ pc[c] = "changed"
    /\ cver[c] # seen[c]
    /\ BorrowAndLint(c)
    /\ TaskSilent
    /\ UNCHANGED <<result, watchers, chanVars, lastDiag, pendingClear, fmtReq, ops, panicked>>
    /\ UNCHANGED fmtVars

\* TaskExit of a task that never sees the channel close and stays parked
TaskExitParked(c) ==
    /\ pc[c] = "changed"
    /\ cver[c] = seen[c]
    /\ cclosed[c]
    /\ UNCHANGED vars

\* _rx.changed() resolves Err: break
TaskExit(c) ==
    /\ pc[c] = "changed"
    /\ cver[c] = seen[c]
    /\ cclosed[c]
    /\ pc' = [pc EXCEPT ![c] = "done"]
    /\ TaskSilent
    /\ UNCHANGED <<watchers, chanVars, seen, content, result, lastDiag, pendingClear, fmtReq,
                   ops, panicked>>
    /\ UNCHANGED fmtVars

TaskStep(c) ==
    \/ TaskStart(c)
    \/ \E ok \in BOOLEAN : LintDone(c, ok)
    \/ TaskPublish(c)
    \/ TaskReport(c)
    \/ TaskWake(c)
    \/ TaskExit(c)

Next ==
    \/ \E d \in Docs, t \in Texts : DidOpen(d, t)
    \/ \E d \in Docs : DidClose(d)
    \/ \E d \in Docs : ClosePublish(d)
    \/ \E d \in Docs, ch \in ChangeLists : DidChange(d, ch)
    \/ \E d \in Docs, t \in Texts \cup {NoText} : DidSave(d, t)
    \/ \E d \in Docs : Formatting(d)
    \/ \E d \in Docs, ok \in BOOLEAN : FormattingDone(d, ok)
    \/ \E c \in Chans : TaskStep(c)

Spec == Init /\ [][Next]_vars

\* the analyzer terminates, notifications to the client are delivered and
\* the runtime schedules every spawned task
Fairness ==
    /\ \A c \in Chans : WF_vars(TaskStep(c))
    /\ \A d \in Docs : WF_vars(ClosePublish(d))
    /\ \A d \in Docs : WF_vars(\E ok \in BOOLEAN : FormattingDone(d, ok))

FairSpec == Spec /\ Fairness

TypeOK ==
    /\ watchers \in [Docs -> Chans \cup {NoChan}]
    /\ nchan \in 0..MaxChan
    /\ pc \in [Chans -> {"unspawned", "spawned", "linting", "publish", "report", "changed", "done"}]
    /\ panicked \in BOOLEAN

\* ---- one formatting request through sqlfluff::fmt ----

\* sqlfluff::fmt that measures the last line in characters
FmtChars(cont, stdout) ==
    LET lines == Lines(cont)
    IN  TextEdit(Range(Position(0, 0),
                       Position(Len(lines), IF lines = <<>> THEN 0 ELSE Len(lines[Len(lines)]))),
                 FromUtf8Lossy(stdout))

SqlfluffFmtChars ==
    /\ stage = "called"
    /\ stage' = "returned"
    /\ fmtResult' = IF output.kind = "exited" /\ output.code \in {0, 1}
                    THEN Ok(<<FmtChars(input, output.stdout)>>)
                    ELSE Err
    /\ UNCHANGED <<lspVars, input, output, reply, shown>>

\* sqlfluff::fmt: Ok(vec![TextEdit]) when the process ran and exited with
\* code 0 or 1; an error when execute failed or on any other status
SqlfluffFmt ==
    /\ stage = "called"
    /\ stage' = "returned"
    /\ fmtResult' = IF output.kind = "exited" /\ output.code \in {0, 1}
                    THEN Ok(<<FmtEdit(input, output.stdout)>>)
                    ELSE Err
    /\ UNCHANGED <<lspVars, input, output, reply, shown>>

\* FormattingReply that hands the error of sqlfluff::fmt to the caller
FormattingReplyPropagate ==
    /\ stage = "returned"
    /\ stage' = "replied"
    /\ reply' = fmtResult
    /\ UNCHANGED <<lspVars, input, output, fmtResult, shown>>

\* formatting after sqlfluff::fmt: Ok(Some(output)), or on an error
\* show_message(ERROR, error) and Ok(None)
FormattingReply ==
    /\ stage = "returned"
    /\ stage' = "replied"
    /\ reply' = IF fmtResult.kind = "Ok" THEN Ok(fmtResult.edits) ELSE Ok(<<>>)
    /\ shown' = IF fmtResult.kind = "Ok" THEN shown ELSE shown + 1
    /\ UNCHANGED <<lspVars, input, output, fmtResult>>

FmtNext ==
    \/ SqlfluffFmt
    \/ FormattingReply

FmtSpec == FmtInit /\ [][FmtNext]_vars

\* ---- properties ----

\* the task of the registry entry of d is parked and the client's last
\* diagnostics for d are those computed from the channel's current value
Settled(d) ==
    LET c == watchers[d] IN
    /\ pc[c] = "changed"
    /\ seen[c] = cver[c]
    /\ lastDiag[d] = Event("lint", d, c, cver[c], cval[c])

\* C1: a document that is opened, edited and saved but never closed, and
\* whose lint invocations never fail, eventually has its last published text
\* linted, and the last diagnostics event for it is the one computed from
\* that text.
C1_CoalescingLiveness ==
    \A d \in Docs :
        \/ <>(pendingClear[d] > 0)
        \/ <>(\E c \in Chans : curi[c] = d /\ pc[c] = "report")
        \/ <>[](watchers[d] # NoChan => Settled(d))

C1_Witness ==
    \E d \in Docs :
        /\ watchers[d] # NoChan
        /\ Settled(d)
        /\ cver[watchers[d]] = 2
        /\ ops = 3

LintsInFlight(d) == {c \in Chans : curi[c] = d /\ pc[c] = "linting"}

\* C2: at most one lint invocation of the analyzer is in flight for any
\* document identity, under all interleavings of the handlers.
C2_AtMostOneLintInFlight ==
    \A d \in Docs : Cardinality(LintsInFlight(d)) <= 1

\* C3: while a document has no registry entry, no lint-derived diagnostics
\* event is published for it.
C3_LateResultsDiscarded ==
    out.kind = "lint" => watchers[out.doc] # NoChan

\* C4: once did_close has dropped the Sender of a channel, the task spawned
\* for that channel eventually returns: a dropped Sender stays dropped, a
\* returned task stays returned, and no task stays forever unreturned on a
\* channel whose Sender is dropped.
C4_CloseTerminatesTask ==
    /\ [][\A c \in Chans :
            /\ cclosed[c] => cclosed'[c]
            /\ pc[c] = "done" => pc'[c] = "done"]_vars
    /\ \A c \in Chans : []<>(cclosed[c] => pc[c] = "done")

C4_Witness ==
    \E c \in Chans : cclosed[c] /\ pc[c] = "done" /\ seen[c] >= 1

\* the step is an invocation of handler o for document d
Invoked(o, d) == ops' # ops /\ call'.op = o /\ call'.doc = d

\* C5: every did_close(d) removes the entry of d without emitting anything
\* and leaves one clear pending, whether or not d was open; an empty
\* diagnostics event for d is emitted only by a pending close, one per close,
\* and every pending close eventually emits it.
C5_CloseClearsDiagnostics ==
    /\ [][\A d \in Docs :
            /\ Invoked("close", d) =>
                  /\ watchers'[d] = NoChan
                  /\ pendingClear'[d] = pendingClear[d] + 1
                  /\ out' = NoOut
            /\ pendingClear'[d] < pendingClear[d] =>
                  /\ pendingClear'[d] = pendingClear[d] - 1
                  /\ out' = ClearDiag(d)
                  /\ lastDiag'[d] = ClearDiag(d)
            /\ out' = ClearDiag(d) => pendingClear'[d] = pendingClear[d] - 1]_vars
    /\ \A d \in Docs : []<>(pendingClear[d] = 0)

C5_Witness ==
    \E d \in Docs :
        /\ out = ClearDiag(d)
        /\ lastDiag[d] = ClearDiag(d)
        /\ pendingClear[d] = 0
        /\ watchers[d] = NoChan
        /\ \E c \in Chans : curi[c] = d /\ cclosed[c] /\ result[c] = "err"

\* the task of c waits after a failed lint while the channel holds a value
\* it has not seen
FailedAndUnseen(c) == pc[c] = "changed" /\ result[c] = "err" /\ cver[c] # seen[c]

\* C6: a failed lint is reported and the task then waits in changed(); a
\* task whose last lint failed does not return while its Sender is alive;
\* a task waiting after a failed lint with an unseen value leaves that state
\* only by starting a lint on the channel's newest value, and it never stays
\* in it (or in the report of the failure) forever.
C6_FailedLintKeepsTask ==
    /\ [][\A c \in Chans :
            /\ (pc[c] = "report" /\ pc'[c] # "report") => pc'[c] = "changed"
            /\ (FailedAndUnseen(c) /\ ~FailedAndUnseen(c)') =>
                  /\ pc'[c] = "linting"
                  /\ seen'[c] = cver'[c]
                  /\ content'[c] = cval'[c]]_vars
    /\ [](\A c \in Chans : (result[c] = "err" /\ ~cclosed[c]) => pc[c] # "done")
    /\ \A c \in Chans : []<>(pc[c] # "report" /\ ~FailedAndUnseen(c))

C6_Witness ==
    \E c \in Chans :
        /\ pc[c] = "linting"
        /\ result[c] = "err"
        /\ ~cclosed[c]
        /\ seen[c] = cver[c]
        /\ content[c] = cval[c]
        /\ cver[c] >= 1

\* C7: the task of channel c emits a notification only when it leaves
\* "report" or "publish", and always then; leaving "report" it emits one
\* error notification and the client's last diagnostics are unchanged;
\* leaving "publish" it emits one diagnostics event and no error; the result
\* of the lint decides which of the two it is.
C7_FailedCyclePublishesNothing ==
    [][\A c \in Chans :
          /\ (pc[c] = "report" /\ pc'[c] # "report") =>
                /\ result[c] = "err"
                /\ out' = ErrorMsg(curi[c], c)
                /\ lastDiag' = lastDiag
          /\ (pc[c] = "publish" /\ pc'[c] # "publish") =>
                /\ result[c] = "ok"
                /\ out' = LintDiag(c)
                /\ lastDiag'[curi[c]] = LintDiag(c)
          /\ (pc[c] = "linting" /\ pc'[c] # "linting") =>
                /\ out' = NoOut
                /\ pc'[c] = IF result'[c] = "err" THEN "report" ELSE "publish"
          /\ (out'.chan = c) => (pc[c] \in {"report", "publish"} /\ pc'[c] = "changed")
      ]_vars

C7_Witness ==
    \E c \in Chans :
        /\ out = ErrorMsg(curi[c], c)
        /\ pc[c] = "changed"
        /\ result[c] = "err"
        /\ lastDiag[curi[c]].kind = "lint"
        /\ lastDiag[curi[c]].chan = c

\* C8: no send has failed, and every registry entry holds a channel whose
\* Sender is alive and which has a live Receiver.
C8_NoLifecycleViolation ==
    /\ ~panicked
    /\ \A d \in Docs :
          watchers[d] # NoChan =>
              /\ ~cclosed[watchers[d]]
              /\ RxCount(watchers[d]) >= 1

C8_Witness ==
    \E d \in Docs :
        /\ call.doc = d
        /\ call.op \in {"open", "change", "save"}
        /\ watchers[d] # NoChan
        /\ cver[watchers[d]] = 2
        /\ RxCount(watchers[d]) = 2
        /\ ~panicked

\* C9: a did_change or did_save for a document without a registry entry
\* changes nothing of the registry, the channels, the tasks, the client's
\* diagnostics and the pending requests, emits nothing and does not panic.
C9_EditOnClosedIsNoOp ==
    [][\A d \in Docs :
          ((Invoked("change", d) \/ Invoked("save", d)) /\ watchers[d] = NoChan) =>
              /\ UNCHANGED progVars
              /\ out' = NoOut
              /\ ret' = "none"]_vars

C9_Witness ==
    \E d \in Docs :
        /\ call.doc = d
        /\ call.op \in {"change", "save"}
        /\ watchers[d] = NoChan
        /\ \E c \in Chans : curi[c] = d /\ cclosed[c]
        /\ ~panicked

\* C10: a formatting request for a document without a registry entry
\* returns absent and starts no analyzer invocation; no step of a formatting
\* request changes the registry, a channel, a task or the client's
\* diagnostics, and none emits a diagnostics event.
C10_FormatIsPureRead ==
    [][/\ \A d \in Docs :
            (Invoked("format", d) /\ watchers[d] = NoChan) =>
                /\ ret' = "absent"
                /\ fmtReq' = fmtReq
       /\ ((\E d \in Docs : Invoked("format", d)) \/ fmtReq' # fmtReq \/ ret' # "none") =>
                /\ UNCHANGED <<watchers, chanVars, taskVars, lastDiag, pendingClear, panicked>>
                /\ out'.kind \notin {"lint", "clear"}
      ]_vars

C10_Witness ==
    /\ ret = "edit"
    /\ \E d \in Docs :
          /\ watchers[d] # NoChan
          /\ pc[watchers[d]] = "changed"
          /\ cver[watchers[d]] = seen[watchers[d]]
          /\ call = NoCall
          /\ fmtReq[d] = NoText
\* the task of channel c has been spawned and has not returned
TaskAlive(c) == pc[c] \notin {"unspawned", "done"}

\* C11: the entry of a document appears and disappears only by a did_open
\* resp. did_close of that document, it exists after every did_open and is
\* gone after every did_close; every entry holds a channel of its own, made
\* for that document, whose task has not returned; and every channel whose
\* Sender is alive is the one of its document's entry.
C11_RegistryTaskInvariant ==
    /\ [][\A d \in Docs :
            /\ Invoked("open", d) => watchers'[d] # NoChan
            /\ Invoked("close", d) => watchers'[d] = NoChan
            /\ (watchers[d] = NoChan /\ watchers'[d] # NoChan) => Invoked("open", d)
            /\ (watchers[d] # NoChan /\ watchers'[d] # watchers[d]) => Invoked("close", d)
         ]_vars
    /\ [](\A d \in Docs :
            watchers[d] # NoChan =>
                /\ curi[watchers[d]] = d
                /\ TaskAlive(watchers[d])
                /\ \A e \in Docs \ {d} : watchers[e] # watchers[d])
    /\ [](\A c \in Chans :
            (pc[c] # "unspawned" /\ ~cclosed[c]) => watchers[curi[c]] = c)

C11_Witness ==
    \E d \in Docs, c \in Chans :
        /\ watchers[d] # NoChan
        /\ watchers[d] # c
        /\ curi[c] = d
        /\ cclosed[c]
        /\ TaskAlive(c)
        /\ TaskAlive(watchers[d])
\* C12: a did_open(d, t) that finds an entry stores t in the entry's channel
\* and increments its version past what the task has seen, and leaves the
\* registry, the set of channels and every task's position unchanged; a
\* did_open(d, t) that finds none creates one channel holding t, bound to d,
\* with a spawned task; and nothing else creates a channel or spawns a task.
C12_DuplicateOpenIsEdit ==
    [][/\ \A d \in Docs :
            Invoked("open", d) =>
                LET t == call'.arg[1]
                    c == watchers[d]
                    n == nchan + 1
                IN  IF c # NoChan
                    THEN /\ cval' = [cval EXCEPT ![c] = t]
                         /\ cver' = [cver EXCEPT ![c] = @ + 1]
                         /\ cver'[c] > seen'[c]
                         /\ UNCHANGED <<watchers, nchan, curi, cclosed, taskVars>>
                    ELSE /\ nchan' = n
                         /\ watchers' = [watchers EXCEPT ![d] = n]
                         /\ curi' = [curi EXCEPT ![n] = d]
                         /\ cval' = [cval EXCEPT ![n] = t]
                         /\ pc' = [pc EXCEPT ![n] = "spawned"]
                         /\ UNCHANGED <<cver, cclosed>>
       /\ (nchan' # nchan \/ \E c \in Chans : pc[c] = "unspawned" /\ pc'[c] # "unspawned") =>
            \E d \in Docs : Invoked("open", d) /\ watchers[d] = NoChan
      ]_vars

C12_Witness ==
    \E d \in Docs :
        /\ call.op = "open"
        /\ call.doc = d
        /\ nchan = 1
        /\ watchers[d] = 1
        /\ cver[1] = 1
        /\ cval[1] = call.arg[1]
        /\ content[1] # cval[1]
        /\ pc[1] = "changed"
        /\ seen[1] = 0
\* C13: the value of a channel changes only by a did_open, did_change or
\* did_save of its document that carries a text, and is then that text (the
\* first one of a did_change); and the text a formatting request hands to
\* the analyzer is the value its document's channel holds when the registry
\* is read, whether or not the task has seen it.
C13_SnapshotIsLatest ==
    [][/\ \A c \in Chans :
            (cval'[c] # cval[c] \/ cver'[c] # cver[c]) =>
                /\ ops' # ops
                /\ call'.op \in {"open", "change", "save"}
                /\ call'.doc = curi'[c]
                /\ call'.arg # <<>>
                /\ cval'[c] = call'.arg[1]
       /\ \A d \in Docs :
            (Invoked("format", d) /\ watchers[d] # NoChan) =>
                fmtReq'[d] = cval[watchers[d]]
      ]_vars

C13_Witness ==
    \E d \in Docs :
        /\ call.op = "format"
        /\ call.doc = d
        /\ watchers[d] # NoChan
        /\ fmtReq[d] = cval[watchers[d]]
        /\ content[watchers[d]] \in Texts \ {cval[watchers[d]]}
        /\ seen[watchers[d]] # cver[watchers[d]]
\* an analyzer invocation is awaited: a lint by a task or a fix by formatting
AnalyzerRunning == (\E c \in Chans : pc[c] = "linting") \/ (\E d \in Docs : fmtReq[d] # NoText)

\* C14: while a lint or a fix invocation of the analyzer is awaited, every
\* did_open, did_close, did_change and did_save the client may still issue
\* can take the registry lock and run.
C14_HandlersNeverBlock ==
    (AnalyzerRunning /\ ops < MaxOps) =>
        \A d \in Docs :
            /\ ENABLED DidClose(d)
            /\ ENABLED (\E ch \in ChangeLists : DidChange(d, ch))
            /\ ENABLED (\E t \in Texts : DidSave(d, t))
            /\ (watchers[d] # NoChan \/ nchan < MaxChan) => ENABLED (\E t \in Texts : DidOpen(d, t))
\* the text of diagnostics event e became current before the text of f:
\* channels of one document are created one after the other, and the
\* versions of one channel count its publishes
OlderText(e, f) == e.chan < f.chan \/ (e.chan = f.chan /\ e.ver < f.ver)

\* C15: a lint-derived diagnostics event for a document is never computed
\* from a text older than the text of the lint-derived event the client
\* received for that document just before it.
C15_DiagnosticsOrdered ==
    [][\A d \in Docs :
          (out'.kind = "lint" /\ out'.doc = d /\ lastDiag[d].kind = "lint") =>
              ~OlderText(out', lastDiag[d])]_vars
\* C16: a task starts a lint either as its first one, right after the
\* spawn, or from changed() when the channel's version is beyond the one it
\* has seen, and it then marks the current version seen; the seen version
\* never exceeds the channel's version, which counts the publishes.  Every
\* lint after the first thus consumes at least one new publish.
C16_BoundedLintCycles ==
    /\ [][\A c \in Chans :
            (pc'[c] = "linting" /\ pc[c] # "linting") =>
                /\ seen'[c] = cver[c]
                /\ content'[c] = cval[c]
                /\ \/ pc[c] = "spawned" /\ result[c] = "none"
                   \/ pc[c] = "changed" /\ cver[c] > seen[c] /\ seen'[c] > seen[c]
         ]_vars
    /\ [](\A c \in Chans : seen[c] <= cver[c])

C16_Witness ==
    \E c \in Chans :
        /\ pc[c] = "linting"
        /\ result[c] = "ok"
        /\ lastDiag[curi[c]] = Event("lint", curi[c], c, 0, content[c])
        /\ seen[c] = 2
        /\ cver[c] = 2
\* C20: a did_change (did_save) of a document with an entry that carries
\* texts (a text) stores the first (the) text in the entry's channel and
\* increments its version; one that carries none leaves every channel and
\* every task as it is.
C20_PublishedText ==
    [][\A d \in Docs :
          (Invoked("change", d) \/ Invoked("save", d)) =>
              /\ IF call'.arg # <<>> /\ watchers[d] # NoChan
                 THEN /\ cval' = [cval EXCEPT ![watchers[d]] = call'.arg[1]]
                      /\ cver' = [cver EXCEPT ![watchers[d]] = @ + 1]
                 ELSE UNCHANGED <<cval, cver>>
              /\ UNCHANGED <<watchers, nchan, curi, cclosed, taskVars>>
      ]_vars

C20_Witness ==
    \E d \in Docs :
        /\ call.op = "change"
        /\ call.doc = d
        /\ Len(call.arg) = 2
        /\ call.arg[1] # call.arg[2]
        /\ watchers[d] # NoChan
        /\ cval[watchers[d]] = call.arg[1]
        /\ cver[watchers[d]] > seen[watchers[d]]
        /\ pc[watchers[d]] = "changed"
\* ---- the edit of a formatting request ----

LineFeeds(s) == {i \in 1..Len(s) : s[i] = LF}
\* the part of s after its last line feed
AfterLastLF(s) ==
    SubSeq(s, (IF LineFeeds(s) = {} THEN 0
               ELSE CHOOSE i \in LineFeeds(s) : \A j \in LineFeeds(s) : j <= i) + 1, Len(s))
Utf16Len(l) == Len(l) + Cardinality({i \in 1..Len(l) : l[i] = Astral})
\* lines of s when every line feed ends a line
NumLines(s) == Cardinality(LineFeeds(s)) + (IF AfterLastLF(s) = <<>> THEN 0 ELSE 1)
\* the last of those lines, without its line ending
LastLine(s) ==
    IF s = <<>> \/ AfterLastLF(s) # <<>> THEN AfterLastLF(s)
    ELSE LET body == AfterLastLF(SubSeq(s, 1, Len(s) - 1))
         IN  IF body # <<>> /\ body[Len(body)] = CR
             THEN SubSeq(body, 1, Len(body) - 1) ELSE body

Returned == stage # "called" /\ fmtResult.kind = "Ok"
TheEdit == fmtResult.edits[1]

\* C17: a successful format yields one edit from (0,0) to the end of the
\* last line of the text, (index of the last line, length of the last
\* line), lines counted from 0; the last line is the one str::lines()
\* yields last or, read as the protocol counts lines, the one after the
\* last line feed.
C17_RangeEndsAtLastLine ==
    Returned =>
        /\ Len(fmtResult.edits) = 1
        /\ TheEdit.range.start = <<0, 0>>
        /\ \/ TheEdit.range.end =
                  <<IF input = <<>> THEN 0 ELSE NumLines(input) - 1, Utf16Len(LastLine(input))>>
           \/ TheEdit.range.end =
                  <<Cardinality(LineFeeds(input)), Utf16Len(AfterLastLF(input))>>

\* UTF-8 encoding of a decoded text
RECURSIVE EncodeUtf8(_)
EncodeUtf8(t) ==
    IF t = <<>> THEN <<>>
    ELSE (CASE t[1] = "a" -> <<"x61">>
            [] t[1] = "U+00E9" -> <<"xC3", "xA9">>
            [] OTHER -> <<"xEF", "xBF", "xBD">>) \o EncodeUtf8(Tail(t))
ValidUtf8(b) == \E t \in SeqsUpTo({"a", "U+00E9"}, Len(b)) : EncodeUtf8(t) = b

EditRangeAsTested ==
    /\ Len(fmtResult.edits) = 1
    /\ TheEdit.range = [start |-> <<0, 0>>,
                        end |-> <<NumLines(input), Utf16Len(LastLine(input))>>]

\* C18 as stated: a successful fmt returns one edit from (0,0) to (number
\* of lines, UTF-16 length of the last line) whose new_text is the
\* analyzer's standard output.
C18_EditIsStdout ==
    Returned => EditRangeAsTested /\ EncodeUtf8(TheEdit.new_text) = output.stdout

\* C18 amended: a successful fmt returns one edit from (0,0) to (number of
\* lines, UTF-16 length of the last line); its new_text is the analyzer's
\* standard output when that is valid UTF-8, and otherwise a text with
\* U+FFFD in place of the bytes that are not.
C18_EditIsLossyStdout ==
    Returned =>
        /\ EditRangeAsTested
        /\ IF ValidUtf8(output.stdout)
           THEN EncodeUtf8(TheEdit.new_text) = output.stdout
           ELSE \E i \in 1..Len(TheEdit.new_text) : TheEdit.new_text[i] = Replacement

C18_Witness ==
    /\ Returned
    /\ input = TestInput
    /\ TheEdit.range.end = <<7, 8>>
    /\ output.stdout = <<"xC3", "xA9">>
    /\ TheEdit.new_text = <<"U+00E9">>

\* C19: the reply of formatting on an open document is never an error; it
\* carries an edit iff the analyzer was started and exited with code 0 or 1
\* and then no error message is shown; otherwise it carries none and
\* exactly one error message is shown.
C19_FormatOutcome ==
    stage = "replied" =>
        /\ reply.kind = "Ok"
        /\ reply.edits # <<>> <=> (output.kind = "exited" /\ output.code \in {0, 1})
        /\ shown = (IF reply.edits # <<>> THEN 0 ELSE 1)

C19_Witness ==
    /\ stage = "replied"
    /\ output.kind = "signal"
    /\ reply = Ok(<<>>)
    /\ shown = 1
====
